---- MODULE Spec2Model ----
(***************************************************************************)
(* KeepActive (src/src/main.rs): target normalisation, the supervising     *)
(* KeepAliveController (start / stop / is_running / drop) and the worker    *)
(* processes it spawns, each running worker_loop over find_target_window.   *)
(*                                                                          *)
(* A Rust String is modelled as a sequence of one-character strings, so     *)
(* that trim and to_ascii_lowercase are computed and not assumed.           *)
(***************************************************************************)
EXTENDS Integers, Sequences, FiniteSets, TLC

VARIABLES
    values,     \* normalize_list: the Vec<String> passed in
    result,     \* normalize_list: the Vec<String> returned
    npc,        \* "input" before normalize_list ran, "done" after
    args,       \* Args { window, exe }: the raw lists of a configuration
    app,        \* AppConfig built by from_args (or the empty record)
    resolved,   \* ResolvedConfig built by from_lists / resolved()
    cpc,        \* which constructor ran last: "input", "from_args", ...
    children,   \* KeepAliveController.children: owned worker ids, in order
    workers,    \* every worker process ever spawned, by id
    ctl,        \* "live" while the controller exists, "dropped" after Drop
    last,       \* the last controller call: its inputs and its outcome
    sys,        \* the desktop: running processes and top-level windows
    proc        \* the process running main: its flags and how far it got

vars == <<values, result, npc, args, app, resolved, cpc,
          children, workers, ctl, last, sys, proc>>

normVars == <<values, result, npc>>
cfgVars  == <<args, app, resolved, cpc>>
ctlVars  == <<children, workers, ctl, last, sys>>
mainVars == <<proc>>

(***************************************************************************)
(* Bounds of the model.                                                    *)
(***************************************************************************)
MaxChars   == 4   \* characters in the raw lists of one call, all together
MaxListLen == 3   \* longest raw list given to normalize_list
MaxCfgLen  == 2   \* raw titles plus raw names given to from_args/from_lists
MaxTargets == 2   \* raw titles plus raw names passed to one start call
MaxSpawned == 2   \* worker processes spawned in one behaviour
MaxWins    == 2   \* top-level windows on a desktop of specification SpecLocate

(***************************************************************************)
(* Strings.                                                                *)
(***************************************************************************)
Alphabet == {" ", "a", "A"}

UpperChars == <<"A","B","C","D","E","F","G","H","I","J","K","L","M",
                "N","O","P","Q","R","S","T","U","V","W","X","Y","Z">>
LowerChars == <<"a","b","c","d","e","f","g","h","i","j","k","l","m",
                "n","o","p","q","r","s","t","u","v","w","x","y","z">>

\* char::is_whitespace, restricted to the ASCII white space
IsWhitespace(c) == c \in {" ", "\t", "\n", "\r"}

\* u8::to_ascii_lowercase
LowerChar(c) ==
    IF \E i \in 1..26 : UpperChars[i] = c
    THEN LowerChars[CHOOSE i \in 1..26 : UpperChars[i] = c]
    ELSE c

\* str::to_ascii_lowercase
to_ascii_lowercase(s) == [i \in 1..Len(s) |-> LowerChar(s[i])]

\* str::eq_ignore_ascii_case
eq_ignore_ascii_case(s, t) == to_ascii_lowercase(s) = to_ascii_lowercase(t)

RECURSIVE trim_start(_)
trim_start(s) ==
    IF s = <<>> THEN <<>>
    ELSE IF IsWhitespace(Head(s)) THEN trim_start(Tail(s))
    ELSE s

RECURSIVE trim_end(_)
trim_end(s) ==
    IF s = <<>> THEN <<>>
    ELSE IF IsWhitespace(s[Len(s)]) THEN trim_end(SubSeq(s, 1, Len(s) - 1))
    ELSE s

\* str::trim
trim(s) == trim_end(trim_start(s))

\* all sequences over S of length at most n
RECURSIVE SeqsUpTo(_, _)
SeqsUpTo(S, n) ==
    IF n = 0 THEN {<<>>}
    ELSE LET shorter == SeqsUpTo(S, n - 1)
         IN  shorter \cup {Append(q, x) : q \in shorter, x \in S}

\* the number of characters of a list of strings
RECURSIVE TotalChars(_)
TotalChars(list) ==
    IF list = <<>> THEN 0 ELSE Len(Head(list)) + TotalChars(Tail(list))

\* all lists of at most n strings over Alphabet with at most c characters
RECURSIVE ListsWithin(_, _)
ListsWithin(n, c) ==
    IF n = 0 THEN {<<>>}
    ELSE LET shorter == ListsWithin(n - 1, c)
         IN  shorter \cup
             UNION {{Append(l, str) : str \in SeqsUpTo(Alphabet, c - TotalChars(l))} :
                      l \in shorter}

DEFAULT_WINDOW_TITLE == <<"C","o","u","n","t","e","r","S","i","d","e">>

(***************************************************************************)
(* normalize_list                                                          *)
(***************************************************************************)
\* normalize_list comparing the trimmed strings themselves, not their
\* lower-case keys
RECURSIVE normalize_loop_case_sensitive(_, _, _, _)
normalize_loop_case_sensitive(vals, i, seen, res) ==
    IF i > Len(vals) THEN res
    ELSE LET trimmed == trim(vals[i])
         IN  IF trimmed = <<>>
             THEN normalize_loop_case_sensitive(vals, i + 1, seen, res)
             ELSE IF trimmed \notin seen
                  THEN normalize_loop_case_sensitive(vals, i + 1, seen \cup {trimmed},
                                                     Append(res, trimmed))
                  ELSE normalize_loop_case_sensitive(vals, i + 1, seen, res)

\* the loop of normalize_list from entry i on, with the HashSet seen and the
\* Vec result built so far
RECURSIVE normalize_loop(_, _, _, _)
normalize_loop(vals, i, seen, res) ==
    IF i > Len(vals) THEN res
    ELSE LET trimmed == trim(vals[i])
             key     == to_ascii_lowercase(trimmed)
         IN  IF trimmed = <<>> THEN normalize_loop(vals, i + 1, seen, res)
             ELSE IF key \notin seen
                  THEN normalize_loop(vals, i + 1, seen \cup {key}, Append(res, trimmed))
                  ELSE normalize_loop(vals, i + 1, seen, res)

normalize_list(vals) == normalize_loop(vals, 1, {}, <<>>)

(***************************************************************************)
(* AppConfig and ResolvedConfig                                            *)
(***************************************************************************)
NoConfig == [window_titles |-> <<>>, process_names |-> <<>>]

\* a constructor that forgets the built-in default
WithoutDefaultTitle(titles) == titles

\* the title list with the built-in default pushed when it is empty
WithDefaultTitle(titles) ==
    IF titles = <<>> THEN <<DEFAULT_WINDOW_TITLE>> ELSE titles

from_args(a) ==
    [window_titles |-> WithDefaultTitle(normalize_list(a.window)),
     process_names |-> normalize_list(a.exe)]

from_lists(window_titles, process_names) ==
    [window_titles |-> WithDefaultTitle(normalize_list(window_titles)),
     process_names |-> normalize_list(process_names)]

\* AppConfig::resolved
Resolved(c) == from_lists(c.window_titles, c.process_names)

(***************************************************************************)
(* Specification SpecNormalize: normalize_list applied to every raw list   *)
(* within the bounds, and again to its own output (from_lists, start and   *)
(* the worker's from_args each normalise what the previous one produced).  *)
(***************************************************************************)
ExampleInput ==
    << <<" "," ","N","o","t","e","p","a","d"," "," ">>,
       <<"n","o","t","e","p","a","d">>,
       <<"C","a","l","c">> >>

ExampleOutput == << <<"N","o","t","e","p","a","d">>, <<"C","a","l","c">> >>

RawLists == ListsWithin(MaxListLen, MaxChars) \cup {ExampleInput}

NormIdle == values = <<>> /\ result = <<>> /\ npc = "input"
CfgIdle  == args = [window |-> <<>>, exe |-> <<>>] /\ app = NoConfig
            /\ resolved = NoConfig /\ cpc = "input"

NormInit == values \in RawLists /\ result = <<>> /\ npc = "input"

\* a call normalize_list(values)
Normalize ==
    /\ npc = "input"
    /\ result' = normalize_list(values)
    /\ npc' = "done"
    /\ UNCHANGED values

\* the returned list is handed to the next normalize_list call
Renormalize ==
    /\ npc = "done"
    /\ values' = result
    /\ npc' = "input"
    /\ UNCHANGED result

(***************************************************************************)
(* Specification SpecConfig: AppConfig::from_args, AppConfig::resolved and *)
(* ResolvedConfig::from_lists applied to every pair of raw lists within    *)
(* the bounds.                                                             *)
(***************************************************************************)
CfgInit ==
    /\ \E w \in ListsWithin(MaxCfgLen, MaxChars) :
         \E e \in ListsWithin(MaxCfgLen - Len(w), MaxChars - TotalChars(w)) :
            args = [window |-> w, exe |-> e]
    /\ app = NoConfig
    /\ resolved = NoConfig
    /\ cpc = "input"

\* main: AppConfig::from_args(&args)
FromArgs ==
    /\ cpc = "input"
    /\ app' = from_args(args)
    /\ cpc' = "from_args"
    /\ UNCHANGED <<args, resolved>>

\* run_cli / main: config.resolved()
ResolveApp ==
    /\ cpc = "from_args"
    /\ resolved' = Resolved(app)
    /\ cpc' = "resolved"
    /\ UNCHANGED <<args, app>>

\* run_gui start button: ResolvedConfig::from_lists(window_titles, process_names)
FromLists ==
    /\ cpc = "input"
    /\ resolved' = from_lists(args.window, args.exe)
    /\ cpc' = "from_lists"
    /\ UNCHANGED <<args, app>>

(***************************************************************************)
(* The desktop the workers look at: the process snapshot (in snapshot      *)
(* order) and the top-level windows (in enumeration order).  hwnd 0 is the *)
(* null handle, pid 0 stands for "no process found".                       *)
(***************************************************************************)
NullHwnd == 0

\* the first of the positions in I, 0 when there is none
FirstIndex(I) ==
    IF I = {} THEN 0 ELSE CHOOSE i \in I : \A j \in I : i <= j

\* Ok(pid) of the first process whose image name matches, 0 for Err; the
\* snapshot call itself may fail (snapshotFails)
find_process_id(process_name, s, snapshotFails) ==
    LET i == FirstIndex({j \in 1..Len(s.procs) :
                            eq_ignore_ascii_case(s.procs[j].exe, process_name)})
    IN  IF snapshotFails \/ i = 0 THEN 0 ELSE s.procs[i].pid

\* find_window_by_pid without the comparison of the window's process id
find_window_by_pid_any_process(pid, s, enumFails) ==
    LET i == FirstIndex({j \in 1..Len(s.wins) :
                            /\ s.wins[j].visible
                            /\ Len(s.wins[j].title) > 0})
    IN  IF enumFails \/ i = 0 THEN NullHwnd ELSE s.wins[i].hwnd

\* the first visible window of the process that has title text; EnumWindows
\* may fail before it reaches one (enumFails)
find_window_by_pid(pid, s, enumFails) ==
    LET i == FirstIndex({j \in 1..Len(s.wins) :
                            /\ s.wins[j].pid = pid
                            /\ s.wins[j].visible
                            /\ Len(s.wins[j].title) > 0})
    IN  IF enumFails \/ i = 0 THEN NullHwnd ELSE s.wins[i].hwnd

\* a title lookup that keeps answering with the handle it found first
find_window_by_title_cached(title, s) ==
    IF s.wins # <<>> /\ eq_ignore_ascii_case(title, <<"a">>) THEN 1 ELSE NullHwnd

\* FindWindowW(None, title): the first top-level window with that window
\* name; the Win32 comparison is not case sensitive
find_window_by_title(title, s) ==
    LET i == FirstIndex({j \in 1..Len(s.wins) :
                            eq_ignore_ascii_case(s.wins[j].title, title)})
    IN  IF i = 0 THEN NullHwnd ELSE s.wins[i].hwnd

RECURSIVE find_by_titles(_, _, _)
find_by_titles(titles, i, s) ==
    IF i > Len(titles) THEN NullHwnd
    ELSE LET hwnd == find_window_by_title(titles[i], s)
         IN  IF hwnd # NullHwnd THEN hwnd ELSE find_by_titles(titles, i + 1, s)

\* fails.snapshot / fails.enum: the positions in process_names at which the
\* snapshot call / the EnumWindows call fails in this iteration
RECURSIVE find_by_names(_, _, _, _)
find_by_names(names, i, s, fails) ==
    IF i > Len(names) THEN NullHwnd
    ELSE LET pid  == find_process_id(names[i], s, i \in fails.snapshot)
             hwnd == IF pid = 0 THEN NullHwnd
                     ELSE find_window_by_pid(pid, s, i \in fails.enum)
         IN  IF hwnd # NullHwnd THEN hwnd ELSE find_by_names(names, i + 1, s, fails)

\* find_target_window with its two loops in the other order
find_target_window_titles_first(config, s, fails) ==
    LET byTitle == find_by_titles(config.window_titles, 1, s)
    IN  IF byTitle # NullHwnd THEN byTitle
        ELSE find_by_names(config.process_names, 1, s, fails)

find_target_window(config, s, fails) ==
    LET byName == find_by_names(config.process_names, 1, s, fails)
    IN  IF byName # NullHwnd THEN byName
        ELSE find_by_titles(config.window_titles, 1, s)

OsFails(config) ==
    {[snapshot |-> a, enum |-> b] :
        a \in SUBSET (1..Len(config.process_names)),
        b \in SUBSET (1..Len(config.process_names))}

\* an iteration in which every snapshot and every EnumWindows call succeeds
NoFails == [snapshot |-> {}, enum |-> {}]

(***************************************************************************)
(* KeepAliveController.  A Child is the id of a worker process; dropping a *)
(* Child neither kills nor waits for the process.                          *)
(***************************************************************************)
WorkerIds == 1..Len(workers)
Alive(w) == workers[w].alive
Range(seq) == {seq[i] : i \in 1..Len(seq)}

\* what Child::try_wait can report for each owned child, by position
TryWaitOutcomes(ch) ==
    {tw \in [1..Len(ch) -> {"Exited", "Running", "Err"}] :
        \A i \in 1..Len(ch) :
            IF Alive(ch[i]) THEN tw[i] \in {"Running", "Err"}
                            ELSE tw[i] \in {"Exited", "Err"}}

\* what Child::kill can report for each owned child, by position: a live
\* process is terminated or the call is refused; an exited one reports Ok or
\* InvalidInput, depending on the standard library
KillOutcomes(ch) ==
    {k \in [1..Len(ch) -> {"Ok", "InvalidInput", "PermissionDenied"}] :
        \A i \in 1..Len(ch) :
            IF Alive(ch[i]) THEN k[i] \in {"Ok", "PermissionDenied"}
                            ELSE k[i] \in {"Ok", "InvalidInput"}}

\* prune_finished: Ok(Some(_)) drops the child, Ok(None) | Err(_) keeps it
KeepChild(outcome) == outcome # "Exited"

RECURSIVE prune_loop(_, _, _, _)
prune_loop(ch, tw, i, active) ==
    IF i > Len(ch) THEN active
    ELSE prune_loop(ch, tw, i + 1,
                    IF KeepChild(tw[i]) THEN Append(active, ch[i]) ELSE active)

prune_finished(ch, tw) == prune_loop(ch, tw, 1, <<>>)

\* start without its Running check
AlreadyRunningNever(pruned) == FALSE

\* start: if !self.children.is_empty() { return Ok(()) }
AlreadyRunning(pruned) == pruned # <<>>

\* start without its validation of the targets
NoTargetsUnchecked(titles, names) == FALSE

\* start: window_titles.is_empty() && process_names.is_empty()
NoTargets(titles, names) == titles = <<>> /\ names = <<>>

\* start spawning one worker for the whole configuration
WorkerCommandsOneGroup(titles, names) == <<[window |-> titles, exe |-> names]>>

\* the argument lists of the worker commands start builds, in spawn order:
\* one per title, then one per executable name with every title
WorkerCommands(titles, names) ==
    [i \in 1..Len(titles) |-> [window |-> <<titles[i]>>, exe |-> <<>>]]
    \o [i \in 1..Len(names) |-> [window |-> titles, exe |-> <<names[i]>>]]

\* the worker process spawned from cmd by the start call numbered call: its
\* main builds AppConfig::from_args(&args) and runs run_worker(config.resolved())
SpawnedWorker(cmd, call) ==
    [alive  |-> TRUE,
     config |-> Resolved(from_args(cmd)),
     call   |-> call,
     pc     |-> "poll",
     sent   |-> NullHwnd,
     fails  |-> NoFails,
     active |-> TRUE]

\* the options of Args as they stand on a command line
OPT_WORKER == <<"-", "-", "w", "o", "r", "k", "e", "r">>
OPT_CLI    == <<"-", "-", "c", "l", "i">>
OPT_WINDOW == <<"-", "-", "w", "i", "n", "d", "o", "w">>
OPT_EXE    == <<"-", "-", "e", "x", "e">>
SHORT_WINDOW == <<"-", "w">>
SHORT_EXE    == <<"-", "e">>

\* cmd.arg(opt).arg(value) for every value
RECURSIVE OptionArgs(_, _)
OptionArgs(opt, vals) ==
    IF vals = <<>> THEN <<>>
    ELSE <<opt, Head(vals)>> \o OptionArgs(opt, Tail(vals))

\* the arguments start gives to the worker command cmd; the operating system
\* hands every argument to the new process as the string it was given
CommandLine(cmd) ==
    <<OPT_WORKER>> \o OptionArgs(OPT_WINDOW, cmd.window)
                   \o OptionArgs(OPT_EXE, cmd.exe)

\* Args before any argument is read
NoArgs == [worker |-> FALSE, cli |-> FALSE, window |-> <<>>, exe |-> <<>>]

\* Args::parse() prints the error and ends the process
ParseError == [ok |-> FALSE, args |-> NoArgs]

\* window and exe take their value from the next argument and do not allow
\* hyphen values: an argument that begins with "-" and is longer than "-" is
\* read as an option, never as the value
IsNewArg(tok) == Len(tok) > 1 /\ tok[1] = "-"

\* Args::parse() on the arguments argv[i..]: --worker and --cli are flags
\* given at most once, --window/-w and --exe/-e append the value that follows,
\* and there are no positional arguments
RECURSIVE parse_loop(_, _, _)
parse_loop(argv, i, a) ==
    IF i > Len(argv) THEN [ok |-> TRUE, args |-> a]
    ELSE IF argv[i] = OPT_WORKER
    THEN IF a.worker THEN ParseError
         ELSE parse_loop(argv, i + 1, [a EXCEPT !.worker = TRUE])
    ELSE IF argv[i] = OPT_CLI
    THEN IF a.cli THEN ParseError
         ELSE parse_loop(argv, i + 1, [a EXCEPT !.cli = TRUE])
    ELSE IF argv[i] \in {OPT_WINDOW, SHORT_WINDOW}
    THEN IF i = Len(argv) \/ IsNewArg(argv[i + 1]) THEN ParseError
         ELSE parse_loop(argv, i + 2,
                         [a EXCEPT !.window = Append(@, argv[i + 1])])
    ELSE IF argv[i] \in {OPT_EXE, SHORT_EXE}
    THEN IF i = Len(argv) \/ IsNewArg(argv[i + 1]) THEN ParseError
         ELSE parse_loop(argv, i + 2,
                         [a EXCEPT !.exe = Append(@, argv[i + 1])])
    ELSE ParseError

parse_args(argv) == parse_loop(argv, 1, NoArgs)

\* self.children after start spawned the first k of n commands as ids
ChildrenAfterSpawn(ids, k, n) == IF k = n THEN ids ELSE <<>>

\* a stop that returns on every error of kill
KillFailsOnAnyError(outcome) == outcome # "Ok"

\* stop: an error of kill other than InvalidInput ends the loop
KillFails(outcome) == outcome \notin {"Ok", "InvalidInput"}

\* the position at which the loop of stop returns early, 0 when it runs through
RECURSIVE stop_loop(_, _)
stop_loop(kills, i) ==
    IF i > Len(kills) THEN 0
    ELSE IF KillFails(kills[i]) THEN i
    ELSE stop_loop(kills, i + 1)

\* the children the loop of stop reached with kill and wait
Reached(ch, stoppedAt) ==
    IF stoppedAt = 0 THEN Range(ch) ELSE {ch[i] : i \in 1..(stoppedAt - 1)}

\* stop leaving the children it did not reach in self.children
ChildrenAfterDrainKeepsRest(ch, stoppedAt) ==
    IF stoppedAt = 0 THEN <<>> ELSE SubSeq(ch, stoppedAt + 1, Len(ch))

\* self.children after stop: the Drain removes the whole range when it is
\* dropped, also on the early return
ChildrenAfterDrain(ch, stoppedAt) == <<>>

\* stop with the test of its result inverted
StopResultInverted(stoppedAt) == IF stoppedAt = 0 THEN "KillError" ELSE "Ok"

StopResult(stoppedAt) == IF stoppedAt = 0 THEN "Ok" ELSE "KillError"

\* is_running: !self.children.is_empty()
IsRunningResult(pruned) == pruned # <<>>

\* a worker process that has ended: nothing of it is left but its exit status
Terminated(w) ==
    [w EXCEPT !.alive = FALSE, !.config = NoConfig, !.pc = "exited",
              !.sent = NullHwnd, !.fails = NoFails]

\* the process start spawns from cmd: its main parses the arguments it was
\* given; when they parse it becomes the worker of the Args read from them,
\* otherwise it ends before main does anything else
LaunchedWorker(cmd, call) ==
    LET parsed == parse_args(CommandLine(cmd))
    IN  IF parsed.ok THEN SpawnedWorker(parsed.args, call)
        ELSE Terminated(SpawnedWorker(cmd, call))

NoCall ==
    [op |-> "none", result |-> "none", config |-> NoConfig, owned |-> <<>>,
     live |-> {}, base |-> 0, spawned |-> {}, killed |-> {}, kills |-> <<>>]

\* the record of a controller call: what it was given (the config it read,
\* NoConfig if it read none; the owned children and which of them were alive;
\* how many workers had been spawned before; the kill outcomes) and what it
\* did (its result, the workers it spawned and those it terminated)
Call(op, res, config, spawned, killed, kills) ==
    [op |-> op, result |-> res, config |-> config, owned |-> children,
     live |-> {w \in Range(children) : Alive(w)}, base |-> Len(workers),
     spawned |-> spawned, killed |-> killed, kills |-> kills]

(***************************************************************************)
(* The raw configurations passed to start in specification Spec.           *)
(***************************************************************************)
TitleChoices == { <<" ", "a">>, <<"a", "a">> }
NameChoices  == { <<" ">>, <<"A">> }

\* the lists a user can enter in specification SpecArgs
ArgTitleChoices == { <<"a">>, <<"-", "a">> }
ArgNameChoices  == { <<"A">>, <<"-", "A">> }

\* the configurations run_cli and the start button pass to start: the result
\* of ResolvedConfig::from_lists
ArgConfigs ==
    {from_lists(t, n) : t \in SeqsUpTo(ArgTitleChoices, MaxTargets),
                        n \in SeqsUpTo(ArgNameChoices, MaxTargets)}

StartConfigs ==
    UNION {{[window_titles |-> t, process_names |-> n] :
                n \in SeqsUpTo(NameChoices, MaxTargets - Len(t))} :
             t \in SeqsUpTo(TitleChoices, MaxTargets)}

\* KeepAliveController::start(config).  tw: what try_wait reports while
\* pruning; exeOk: env::current_exe() succeeds; k: how many of the worker
\* commands spawn before one fails (all of them, if k is their number)
Start(config, tw) ==
    LET pruned == prune_finished(children, tw)
        titles == normalize_list(config.window_titles)
        names  == normalize_list(config.process_names)
        cmds   == WorkerCommands(titles, names)
        n      == Len(cmds)
        base   == Len(workers)
    IN  /\ ctl = "live"
        /\ IF AlreadyRunning(pruned)
           THEN /\ children' = pruned
                /\ workers' = workers
                /\ last' = Call("start", "Ok", NoConfig, {}, {}, <<>>)
           ELSE IF NoTargets(titles, names)
           THEN /\ children' = pruned
                /\ workers' = workers
                /\ last' = Call("start", "NoTargets", config, {}, {}, <<>>)
           ELSE \E exeOk \in BOOLEAN :
                IF ~exeOk
                THEN /\ children' = pruned
                     /\ workers' = workers
                     /\ last' = Call("start", "CurrentExeError", config, {}, {}, <<>>)
                ELSE /\ base + n <= MaxSpawned
                     /\ \E k \in 0..n :
                        LET ids == [i \in 1..k |-> base + i]
                        IN  /\ workers' = workers \o
                                  [i \in 1..k |-> LaunchedWorker(cmds[i], base + 1)]
                            /\ children' = ChildrenAfterSpawn(ids, k, n)
                            /\ last' = Call("start",
                                            IF k = n THEN "Ok" ELSE "SpawnError",
                                            config, Range(ids), {}, <<>>)
        /\ UNCHANGED <<ctl, sys>>

\* the effect of the loop of stop on the worker processes
AfterKills(ch, kills, stoppedAt) ==
    LET killed == {ch[i] : i \in {j \in 1..Len(ch) :
                        ch[j] \in Reached(ch, stoppedAt) /\ kills[j] = "Ok"
                        /\ Alive(ch[j])}}
    IN  [killed  |-> killed,
         workers |-> [w \in WorkerIds |->
                        IF w \in killed THEN Terminated(workers[w]) ELSE workers[w]]]

\* KeepAliveController::stop()
Stop(kills) ==
    LET stoppedAt == stop_loop(kills, 1)
        after     == AfterKills(children, kills, stoppedAt)
    IN  /\ ctl = "live"
        /\ workers' = after.workers
        /\ children' = ChildrenAfterDrain(children, stoppedAt)
        /\ last' = Call("stop", StopResult(stoppedAt), NoConfig, {},
                        after.killed, kills)
        /\ UNCHANGED <<ctl, sys>>

\* KeepAliveController::is_running()
IsRunning(tw) ==
    LET pruned == prune_finished(children, tw)
    IN  /\ ctl = "live"
        /\ children' = pruned
        /\ last' = Call("is_running",
                        IF IsRunningResult(pruned) THEN "true" ELSE "false",
                        NoConfig, {}, {}, <<>>)
        /\ UNCHANGED <<workers, ctl, sys>>

\* Drop for KeepAliveController: let _ = self.stop()
Drop(kills) ==
    LET stoppedAt == stop_loop(kills, 1)
        after     == AfterKills(children, kills, stoppedAt)
    IN  /\ ctl = "live"
        /\ workers' = after.workers
        /\ children' = ChildrenAfterDrain(children, stoppedAt)
        /\ ctl' = "dropped"
        /\ last' = Call("drop", "none", NoConfig, {}, after.killed, kills)
        /\ UNCHANGED sys

(***************************************************************************)
(* Worker processes.  Every worker runs one iteration of worker_loop per   *)
(* poll interval (REFRESH_INTERVAL_MS); Tick ends the interval.            *)
(***************************************************************************)
\* worker_loop leaving the loop when no window was found
AfterLocateExitOnMiss(hwnd) == IF hwnd = NullHwnd THEN "exited" ELSE "sleep"

\* worker_loop after find_target_window: the SendMessageW is skipped for
\* None, the sleep follows in both cases
AfterLocate(hwnd) == "sleep"

\* one iteration of worker_loop up to the sleep: find_target_window, then
\* SendMessageW(hwnd, WM_ACTIVATE, ...) if a window was found; fails is kept
\* as the record of which OS calls failed in this iteration
WorkerPoll(w, fails) ==
    /\ Alive(w)
    /\ workers[w].pc = "poll"
    /\ LET hwnd == find_target_window(workers[w].config, sys, fails)
       IN  workers' = [workers EXCEPT
                         ![w].sent = hwnd,
                         ![w].fails = fails,
                         ![w].pc = AfterLocate(hwnd)]
    /\ UNCHANGED <<children, ctl, last, sys>>

\* worker_loop ending after its first sleep
AfterSleepHalts == "halted"

\* worker_loop after thread::sleep: back to the test of the while loop, which
\* run_worker never makes false
AfterSleep == "poll"

\* a worker_loop that does not look at its flag
LoopContinuesAlways(active) == TRUE

\* worker_loop: while active.load(Ordering::SeqCst)
LoopContinues(active) == active

\* the interval ends: every sleeping worker wakes up and tests its flag; with
\* the flag set it is committed to its next iteration (pc "poll"), with the
\* flag cleared worker_loop, run_worker and main return and the process ends
Tick ==
    /\ \A w \in WorkerIds : Alive(w) => workers[w].pc = "sleep"
    /\ \E w \in WorkerIds : Alive(w)
    /\ workers' = [w \in WorkerIds |->
                     IF Alive(w)
                     THEN IF LoopContinues(workers[w].active)
                          THEN [workers[w] EXCEPT !.pc = AfterSleep,
                                                  !.sent = NullHwnd,
                                                  !.fails = NoFails]
                          ELSE Terminated(workers[w])
                     ELSE workers[w]]
    /\ UNCHANGED <<children, ctl, last, sys>>

\* another holder of the Arc<AtomicBool> handed to worker_loop clears the flag
ClearFlag(w) ==
    /\ Alive(w)
    /\ workers[w].active
    /\ workers' = [workers EXCEPT ![w].active = FALSE]
    /\ UNCHANGED <<children, ctl, last, sys>>

\* a worker process ends without the controller (killed from outside, crash)
WorkerExit(w) ==
    /\ Alive(w)
    /\ workers' = [workers EXCEPT ![w] = Terminated(workers[w])]
    /\ UNCHANGED <<children, ctl, last, sys>>

(***************************************************************************)
(* The desktops of specification Spec.                                     *)
(***************************************************************************)
Proc(pid, exe) == [pid |-> pid, exe |-> exe]
Win(hwnd, pid, visible, title) ==
    [hwnd |-> hwnd, pid |-> pid, visible |-> visible, title |-> title]

EmptyDesktop == [procs |-> <<>>, wins |-> <<>>]

\* process 1 (image "a") shows window 1 titled "a"
OneWindow ==
    [procs |-> <<Proc(1, <<"a">>)>>,
     wins  |-> <<Win(1, 1, TRUE, <<"a">>)>>]

\* process 2 (image "aa") shows window 2 titled "aa" above window 1
TwoWindows ==
    [procs |-> <<Proc(1, <<"a">>), Proc(2, <<"a", "a">>)>>,
     wins  |-> <<Win(2, 2, TRUE, <<"a", "a">>), Win(1, 1, TRUE, <<"a">>)>>]

\* process "a" ended and was launched again: a new pid and a new window
\* handle, the same image name and the same title
Restarted ==
    [procs |-> <<Proc(3, <<"a">>)>>,
     wins  |-> <<Win(3, 3, TRUE, <<"a">>)>>]

Desktops == {EmptyDesktop, OneWindow, TwoWindows, Restarted}

\* windows and processes come and go
DesktopChange(d) ==
    /\ d # sys
    /\ sys' = d
    /\ UNCHANGED <<children, workers, ctl, last>>

(***************************************************************************)
(* Specification SpecLocate: one worker process, launched with --worker    *)
(* and the --window / --exe arguments of LocCommands, polling a desktop of *)
(* LocDesktops.                                                            *)
(***************************************************************************)
LocTitleLists ==
    { <<>>, << <<"a">> >>, << <<"a">>, <<"a", "a">> >>, << <<"a", "a">>, <<"a">> >> }
LocNameLists ==
    { <<>>, << <<"a">> >>, << <<"a">>, <<"a", "a">> >>, << <<"a", "a">>, <<"a">> >> }

LocCommands == {[window |-> t, exe |-> n] : t \in LocTitleLists, n \in LocNameLists}

\* process snapshots: image names differ from the targets in case, two
\* processes may run the same image
LocProcLists ==
    { <<>>,
      <<Proc(1, <<"A">>)>>,
      <<Proc(1, <<"A">>), Proc(2, <<"a", "a">>)>>,
      <<Proc(1, <<"a", "a">>), Proc(2, <<"a">>)>>,
      <<Proc(1, <<"a">>), Proc(2, <<"A">>)>> }

\* what a top-level window can be: its process, IsWindowVisible, its text
LocWindowKinds ==
    {[pid |-> p, visible |-> k[1], title |-> k[2]] :
        p \in {1, 2},
        k \in { <<TRUE, <<"A">>>>, <<TRUE, <<"a", "a">>>>,
                <<FALSE, <<"A">>>>, <<TRUE, <<>>>> }}

\* the window lists of at most n windows, in enumeration order; the handle of
\* a window is its position
RECURSIVE LocWindowLists(_)
LocWindowLists(n) ==
    IF n = 0 THEN {<<>>}
    ELSE LET shorter == LocWindowLists(n - 1)
         IN  shorter \cup
             {Append(l, Win(Len(l) + 1, k.pid, k.visible, k.title)) :
                 l \in shorter, k \in LocWindowKinds}

LocDesktops ==
    {[procs |-> p, wins |-> w] : p \in LocProcLists, w \in LocWindowLists(MaxWins)}

\* one worker process in its worker_loop on a desktop of Desktops
LoopInit ==
    /\ children = <<>>
    /\ \E cmd \in LocCommands : workers = <<SpawnedWorker(cmd, 0)>>
    /\ ctl = "live"
    /\ last = NoCall
    /\ sys \in Desktops

LocInit ==
    /\ children = <<>>
    /\ \E cmd \in LocCommands : workers = <<SpawnedWorker(cmd, 0)>>
    /\ ctl = "live"
    /\ last = NoCall
    /\ sys \in LocDesktops

CtlIdle ==
    /\ children = <<>>
    /\ workers = <<>>
    /\ ctl = "live"
    /\ last = NoCall
    /\ sys = EmptyDesktop

CtlInit ==
    /\ children = <<>>      \* KeepAliveController::new
    /\ workers = <<>>
    /\ ctl = "live"
    /\ last = NoCall
    /\ sys \in Desktops

(***************************************************************************)
(* The process running main.                                               *)
(***************************************************************************)
\* no process of the program is followed through main
NoProc ==
    [pc |-> "none", worker |-> FALSE, cli |-> FALSE, elevated |-> FALSE,
     checked |-> FALSE, ui |-> "none", shown |-> "none",
     start_btn |-> FALSE, stop_btn |-> FALSE, exit |-> "none"]

ProcIdle == proc = NoProc

\* the command lines the program is launched with: --window and --exe
MainArgs ==
    {[window |-> w, exe |-> e] :
        w \in {<<>>, << <<" ", "a">> >>}, e \in {<<>>, << <<"A">> >>}}

\* the program is launched: Args::parse() is done, main is about to call
\* ensure_admin; the token of the process is elevated or not
MainInit ==
    /\ args \in MainArgs
    /\ app = NoConfig
    /\ resolved = NoConfig
    /\ cpc = "input"
    /\ \E w \in BOOLEAN, c \in BOOLEAN, e \in BOOLEAN :
          proc = [NoProc EXCEPT !.pc = "main", !.worker = w, !.cli = c,
                                !.elevated = e]

\* ensure_admin()?: is_elevated fails, or reports the token; a process that
\* is not elevated relaunches itself with runas and exits (proc is then the
\* new, elevated process at the entry of its main), or fails to
EnsureAdmin(outcome) ==
    /\ proc.pc = "main"
    /\ outcome = "RelaunchError" => ~proc.elevated
    /\ proc' =
          IF outcome = "IsElevatedError"
          THEN [proc EXCEPT !.pc = "exited", !.checked = TRUE, !.exit = "Err"]
          ELSE IF proc.elevated
          THEN [proc EXCEPT !.pc = "dispatch", !.checked = TRUE]
          ELSE IF outcome = "RelaunchError"
          THEN [proc EXCEPT !.pc = "exited", !.checked = TRUE, !.exit = "Err"]
          ELSE [proc EXCEPT !.pc = "main", !.elevated = TRUE, !.checked = FALSE]
    /\ UNCHANGED <<cfgVars, ctlVars>>

\* main after ensure_admin: AppConfig::from_args, then run_worker, run_cli or
\* run_gui (guiOk: the GUI runtime and the controls are built)
Dispatch(guiOk) ==
    /\ proc.pc = "dispatch"
    /\ (proc.worker \/ proc.cli) => guiOk
    /\ FromArgs
    /\ IF proc.worker
       THEN /\ proc' = [proc EXCEPT !.pc = "worker"]
            /\ workers' = <<SpawnedWorker(args, 0)>>
            /\ UNCHANGED <<children, ctl, last, sys>>
       ELSE /\ proc' =
                  IF proc.cli THEN [proc EXCEPT !.pc = "cli", !.ui = "cli"]
                  ELSE IF guiOk
                  THEN [proc EXCEPT !.pc = "gui", !.ui = "gui",
                                    !.shown = "Status: Not running",
                                    !.start_btn = TRUE, !.stop_btn = FALSE]
                  ELSE [proc EXCEPT !.pc = "exited", !.exit = "Err"]
            /\ UNCHANGED ctlVars

\* run_cli, command "1"
CliStart(tw) ==
    /\ proc.pc = "cli"
    /\ IF IsRunningResult(prune_finished(children, tw))
       THEN /\ IsRunning(tw)
            /\ proc' = [proc EXCEPT !.shown = "Already running."]
       ELSE /\ Start(Resolved(app), tw)
            /\ proc' =
                  IF last'.result = "Ok"
                  THEN [proc EXCEPT !.shown = "Activation loop started."]
                  ELSE [proc EXCEPT !.pc = "returning", !.exit = "Err"]
    /\ UNCHANGED cfgVars

\* run_cli, command "0": is_running, then stop on the pruned children
CliStop(tw, kills) ==
    LET pruned    == prune_finished(children, tw)
        stoppedAt == stop_loop(kills, 1)
        after     == AfterKills(pruned, kills, stoppedAt)
    IN  /\ proc.pc = "cli"
        /\ IF IsRunningResult(pruned)
           THEN /\ workers' = after.workers
                /\ children' = ChildrenAfterDrain(pruned, stoppedAt)
                /\ last' = Call("stop", StopResult(stoppedAt), NoConfig, {},
                                after.killed, kills)
                /\ proc' =
                      IF StopResult(stoppedAt) = "Ok"
                      THEN [proc EXCEPT !.shown = "Activation loop stopped."]
                      ELSE [proc EXCEPT !.pc = "returning", !.exit = "Err"]
                /\ UNCHANGED <<ctl, sys>>
           ELSE /\ IsRunning(tw)
                /\ proc' = [proc EXCEPT !.shown = "Not running."]
        /\ UNCHANGED cfgVars

\* run_cli, command "q": controller.stop().ok(), break
CliQuit(kills) ==
    /\ proc.pc = "cli"
    /\ Stop(kills)
    /\ proc' = [proc EXCEPT !.shown = "Exiting.", !.pc = "returning", !.exit = "Ok"]
    /\ UNCHANGED cfgVars

\* run_cli, any other command
CliUnknown ==
    /\ proc.pc = "cli"
    /\ proc' = [proc EXCEPT !.shown = "Unknown command"]
    /\ UNCHANGED <<cfgVars, ctlVars>>

\* run_cli: stdin.read_line(&mut buffer)? fails
CliReadError ==
    /\ proc.pc = "cli"
    /\ proc' = [proc EXCEPT !.pc = "returning", !.exit = "Err"]
    /\ UNCHANGED <<cfgVars, ctlVars>>

\* the lists of the two list boxes when Start is clicked: trimmed entries
\* without duplicates, possibly none
GuiLists ==
    {[window_titles |-> normalize_list(c.window_titles),
      process_names |-> normalize_list(c.process_names)] : c \in StartConfigs}

\* run_gui, a click on the Start button
GuiStart(lists, tw) ==
    /\ proc.pc = "gui"
    /\ proc.start_btn
    /\ Start(from_lists(lists.window_titles, lists.process_names), tw)
    /\ proc' =
          IF last'.result = "Ok"
          THEN [proc EXCEPT !.shown = "Status: Running",
                            !.start_btn = FALSE, !.stop_btn = TRUE]
          ELSE [proc EXCEPT !.shown = "Error"]
    /\ UNCHANGED cfgVars

\* run_gui, a click on the Stop button
GuiStop(kills) ==
    /\ proc.pc = "gui"
    /\ proc.stop_btn
    /\ Stop(kills)
    /\ proc' =
          IF last'.result = "Ok"
          THEN [proc EXCEPT !.shown = "Status: Not running",
                            !.start_btn = TRUE, !.stop_btn = FALSE]
          ELSE [proc EXCEPT !.shown = "Error"]
    /\ UNCHANGED cfgVars

\* run_gui, OnWindowClose: controller.stop().ok(), stop_thread_dispatch
GuiClose(kills) ==
    /\ proc.pc = "gui"
    /\ Stop(kills)
    /\ proc' = [proc EXCEPT !.pc = "returning", !.exit = "Ok"]
    /\ UNCHANGED cfgVars

\* run_cli / run_gui return to main: the controller is dropped, main returns
Return(kills) ==
    /\ proc.pc = "returning"
    /\ Drop(kills)
    /\ proc' = [proc EXCEPT !.pc = "exited"]
    /\ UNCHANGED cfgVars

(***************************************************************************)
(* Specifications.                                                         *)
(***************************************************************************)
\* Specification Spec: the life cycle of the controller and of the worker
\* processes it spawns (start, stop, is_running, drop; workers ending on their
\* own).  What the workers do while they run is specification SpecWorkers.
Init == NormIdle /\ CfgIdle /\ CtlIdle /\ ProcIdle

StartStep ==
    /\ \E config \in StartConfigs, tw \in TryWaitOutcomes(children) :
            Start(config, tw)
    /\ UNCHANGED <<normVars, cfgVars, mainVars>>

StopStep ==
    /\ \E kills \in KillOutcomes(children) : Stop(kills)
    /\ UNCHANGED <<normVars, cfgVars, mainVars>>

IsRunningStep ==
    /\ \E tw \in TryWaitOutcomes(children) : IsRunning(tw)
    /\ UNCHANGED <<normVars, cfgVars, mainVars>>

DropStep ==
    /\ \E kills \in KillOutcomes(children) : Drop(kills)
    /\ UNCHANGED <<normVars, cfgVars, mainVars>>

WorkerPollStep ==
    /\ \E w \in WorkerIds : \E fails \in OsFails(workers[w].config) :
            WorkerPoll(w, fails)
    /\ UNCHANGED <<normVars, cfgVars, mainVars>>

TickStep == Tick /\ UNCHANGED <<normVars, cfgVars, mainVars>>

WorkerExitStep ==
    /\ \E w \in WorkerIds : WorkerExit(w)
    /\ UNCHANGED <<normVars, cfgVars, mainVars>>

DesktopStep ==
    /\ \E d \in Desktops : DesktopChange(d)
    /\ UNCHANGED <<normVars, cfgVars, mainVars>>

Next ==
    \/ StartStep
    \/ StopStep
    \/ IsRunningStep
    \/ DropStep
    \/ WorkerExitStep

Spec == Init /\ [][Next]_vars

\* Specification SpecWorkers: the workers of a supervision session polling
\* the desktop, interval by interval, between start and stop.  Sessions follow
\* one another: start is called when no worker process is running (start
\* while workers run is part of specification Spec).
InitWorkers == NormIdle /\ CfgIdle /\ CtlInit /\ ProcIdle

SessionStartStep == (\A w \in WorkerIds : ~Alive(w)) /\ StartStep

NextWorkers ==
    \/ SessionStartStep
    \/ StopStep
    \/ WorkerPollStep
    \/ TickStep
    \/ WorkerExitStep
    \/ DesktopStep

SpecWorkers == InitWorkers /\ [][NextWorkers]_vars

\* Specification SpecLocate
InitLocate == NormIdle /\ CfgIdle /\ LocInit /\ ProcIdle

NextLocate ==
    \/ WorkerPollStep
    \/ TickStep

SpecLocate == InitLocate /\ [][NextLocate]_vars

\* Specification SpecLive: the workers of one session that is not stopped,
\* with the scheduler being fair to every worker process (a worker that can
\* start its iteration eventually does) and time passing (the sleep of every
\* worker ends)
PollOf(w) ==
    /\ w \in WorkerIds
    /\ \E fails \in OsFails(workers[w].config) : WorkerPoll(w, fails)
    /\ UNCHANGED <<normVars, cfgVars, mainVars>>

FairWorkers ==
    /\ WF_vars(TickStep)
    /\ \A w \in 1..MaxSpawned : WF_vars(PollOf(w))

NextLive ==
    \/ SessionStartStep
    \/ WorkerPollStep
    \/ TickStep
    \/ DesktopStep

SpecLive == InitWorkers /\ [][NextLive]_vars /\ FairWorkers

\* Specification SpecLoop: worker_loop(active, config) as a function of its
\* flag: one worker whose flag some other holder may clear at any moment,
\* under the fairness of SpecLive
InitLoop == NormIdle /\ CfgIdle /\ LoopInit /\ ProcIdle

ClearFlagStep ==
    /\ \E w \in WorkerIds : ClearFlag(w)
    /\ UNCHANGED <<normVars, cfgVars, mainVars>>

NextLoop ==
    \/ WorkerPollStep
    \/ TickStep
    \/ ClearFlagStep
    \/ DesktopStep

SpecLoop == InitLoop /\ [][NextLoop]_vars /\ FairWorkers

\* Specification SpecArgs: the controller started with configurations built
\* by from_lists from what a user can enter, a leading "-" included
ArgStartStep ==
    /\ \E config \in ArgConfigs, tw \in TryWaitOutcomes(children) :
            Start(config, tw)
    /\ UNCHANGED <<normVars, cfgVars, mainVars>>

NextArgs ==
    \/ ArgStartStep
    \/ StopStep
    \/ IsRunningStep

SpecArgs == Init /\ [][NextArgs]_vars

\* Specification SpecMain: one process of the program from the entry of main
\* on, as a worker, with the command loop of run_cli or with the event
\* handler of run_gui
InitMain == NormIdle /\ MainInit /\ CtlIdle

EnsureAdminStep ==
    /\ \E outcome \in {"Ok", "IsElevatedError", "RelaunchError"} : EnsureAdmin(outcome)
    /\ UNCHANGED normVars

DispatchStep ==
    /\ \E guiOk \in BOOLEAN : Dispatch(guiOk)
    /\ UNCHANGED normVars

CliStartStep ==
    /\ \E tw \in TryWaitOutcomes(children) : CliStart(tw)
    /\ UNCHANGED normVars

CliStopStep ==
    /\ \E tw \in TryWaitOutcomes(children) :
          \E kills \in KillOutcomes(prune_finished(children, tw)) : CliStop(tw, kills)
    /\ UNCHANGED normVars

CliQuitStep ==
    /\ \E kills \in KillOutcomes(children) : CliQuit(kills)
    /\ UNCHANGED normVars

CliUnknownStep == CliUnknown /\ UNCHANGED normVars

CliReadErrorStep == CliReadError /\ UNCHANGED normVars

GuiStartStep ==
    /\ \E lists \in GuiLists, tw \in TryWaitOutcomes(children) : GuiStart(lists, tw)
    /\ UNCHANGED normVars

GuiStopStep ==
    /\ \E kills \in KillOutcomes(children) : GuiStop(kills)
    /\ UNCHANGED normVars

GuiCloseStep ==
    /\ \E kills \in KillOutcomes(children) : GuiClose(kills)
    /\ UNCHANGED normVars

ReturnStep ==
    /\ \E kills \in KillOutcomes(children) : Return(kills)
    /\ UNCHANGED normVars

\* the process that runs run_worker goes through its worker_loop
MainWorkerPollStep == proc.pc = "worker" /\ WorkerPollStep
MainWorkerTickStep == proc.pc = "worker" /\ TickStep

\* a worker spawned by the controller of this process ends on its own
ChildExitStep == proc.pc \in {"cli", "gui"} /\ WorkerExitStep

NextMain ==
    \/ EnsureAdminStep
    \/ DispatchStep
    \/ CliStartStep
    \/ CliStopStep
    \/ CliQuitStep
    \/ CliUnknownStep
    \/ CliReadErrorStep
    \/ GuiStartStep
    \/ GuiStopStep
    \/ GuiCloseStep
    \/ ReturnStep
    \/ MainWorkerPollStep
    \/ MainWorkerTickStep
    \/ ChildExitStep

SpecMain == InitMain /\ [][NextMain]_vars

InitNormalize == NormInit /\ CfgIdle /\ CtlIdle /\ ProcIdle

NormalizeStep == Normalize /\ UNCHANGED <<cfgVars, ctlVars, mainVars>>
RenormalizeStep == Renormalize /\ UNCHANGED <<cfgVars, ctlVars, mainVars>>

NextNormalize ==
    \/ NormalizeStep
    \/ RenormalizeStep

SpecNormalize == InitNormalize /\ [][NextNormalize]_vars

InitConfig == NormIdle /\ CfgInit /\ CtlIdle /\ ProcIdle

FromArgsStep == FromArgs /\ UNCHANGED <<normVars, ctlVars, mainVars>>
ResolveAppStep == ResolveApp /\ UNCHANGED <<normVars, ctlVars, mainVars>>
FromListsStep == FromLists /\ UNCHANGED <<normVars, ctlVars, mainVars>>

NextConfig ==
    \/ FromArgsStep
    \/ ResolveAppStep
    \/ FromListsStep

SpecConfig == InitConfig /\ [][NextConfig]_vars

(***************************************************************************)
(* Vocabulary of the claims.                                               *)
(***************************************************************************)
\* s has a character that is not white space
NonBlank(s) == \E i \in 1..Len(s) : ~IsWhitespace(s[i])
AllBlank(list) == \A i \in 1..Len(list) : ~NonBlank(list[i])

\* t is s without its leading and trailing white space
IsTrimOf(t, s) ==
    \E a \in 0..Len(s) :
        /\ a + Len(t) <= Len(s)
        /\ t = SubSeq(s, a + 1, a + Len(t))
        /\ \A i \in 1..a : IsWhitespace(s[i])
        /\ \A i \in (a + Len(t) + 1)..Len(s) : IsWhitespace(s[i])
        /\ t = <<>> \/ (~IsWhitespace(t[1]) /\ ~IsWhitespace(t[Len(t)]))

TrimOf(s) ==
    CHOOSE t \in {SubSeq(s, a, b) : a \in 1..(Len(s) + 1), b \in 0..Len(s)} :
        IsTrimOf(t, s)

\* s and t are equal up to the case of their ASCII letters
SameClass(s, t) ==
    /\ Len(s) = Len(t)
    /\ \A i \in 1..Len(s) : LowerChar(s[i]) = LowerChar(t[i])

\* the positions of vals whose entry is not blank and is the first of its class
Survivors(vals) ==
    {i \in 1..Len(vals) :
        /\ NonBlank(vals[i])
        /\ \A j \in 1..(i - 1) : ~SameClass(TrimOf(vals[j]), TrimOf(vals[i]))}

\* the step is a call of the controller operation op that changed something
\* the controller holds (a call that changes nothing is a stuttering step)
IsCallStep(op) == last'.op = op /\ <<last, children>>' # <<last, children>>

\* new is old without some entries, none of them a live worker, in old's order
PrunedFrom(new, old) ==
    /\ \E f \in [1..Len(new) -> 1..Len(old)] :
          /\ \A i \in 1..Len(new) : new[i] = old[f[i]]
          /\ \A i, j \in 1..Len(new) : i < j => f[i] < f[j]
    /\ \A i \in 1..Len(old) : Alive(old[i]) => old[i] \in Range(new)

(***************************************************************************)
(* Claims.                                                                 *)
(***************************************************************************)
\* C1: after stop returns, with any outcome, is_running() is false and no
\* worker the controller owned when stop was called is still alive.
C1_StopLeavesNoOwnedWorkerAlive ==
    last.op = "stop" =>
        /\ \A tw \in TryWaitOutcomes(children) :
              ~IsRunningResult(prune_finished(children, tw))
        /\ \A w \in Range(last.owned) : ~Alive(w)

\* C2: when a spawn fails part-way through start, start returns the error,
\* every worker already spawned in that call is torn down and the controller
\* is left Idle with an empty worker set.
C2_SpawnFailureTearsDown ==
    (last.op = "start" /\ Len(workers) > last.base
     /\ Len(workers) - last.base
          < Len(WorkerCommands(normalize_list(last.config.window_titles),
                               normalize_list(last.config.process_names)))) =>
        /\ last.result = "SpawnError"
        /\ children = <<>>
        /\ \A w \in (last.base + 1)..Len(workers) : ~Alive(w)

\* C3: within one poll interval the workers started by one start call send at
\* most one activation signal to any given window.
C3_OneSignalPerWindowPerInterval ==
    \A v, w \in WorkerIds :
        (v # w /\ workers[v].call = workers[w].call
         /\ workers[v].sent # NullHwnd /\ workers[w].sent # NullHwnd) =>
            workers[v].sent # workers[w].sent

\* C4: start while Running (an owned worker is still alive) returns success,
\* spawns no worker and leaves the owned live workers as they are, whatever
\* spec is passed; only children that already ended may leave the owned set.
C4_StartWhileRunningIsNoOp ==
    [][(IsCallStep("start") /\ \E w \in Range(children) : Alive(w)) =>
          /\ last'.result = "Ok"
          /\ workers' = workers
          /\ PrunedFrom(children', children)]_vars

C4_Witness ==
    /\ last.op = "start" /\ last.result = "Ok"
    /\ Len(last.owned) = 2 /\ Cardinality(last.live) = 1
    /\ Len(children) = 1 /\ Len(workers) = 2

\* C5: when the controller is dropped, no worker process it ever spawned is
\* still running afterwards.
C5_NoWorkerOutlivesController ==
    ctl = "dropped" => \A w \in WorkerIds : ~Alive(w)

\* C6: when terminating a worker fails inside stop, stop returns an error and
\* the owned worker set is nevertheless empty afterwards.
C6_KillFailureIsReturnedAndSetCleared ==
    (last.op = "stop"
     /\ \E i \in 1..Len(last.kills) : last.kills[i] = "PermissionDenied") =>
        /\ last.result = "KillError"
        /\ children = <<>>

C6_Witness ==
    /\ last.op = "stop" /\ last.result = "KillError"
    /\ Len(last.owned) = 2 /\ last.kills[1] = "PermissionDenied"
    /\ children = <<>>
    /\ \A w \in Range(last.owned) : Alive(w)

\* C7: stop called while Idle (no owned workers) returns success, kills
\* nothing and leaves the controller Idle.
C7_StopWhileIdleIsNoOp ==
    [][(IsCallStep("stop") /\ children = <<>>) =>
          /\ last'.result = "Ok"
          /\ workers' = workers
          /\ children' = <<>>]_vars

C7_Witness ==
    /\ last.op = "stop" /\ last.owned = <<>> /\ last.result = "Ok"
    /\ children = <<>>
    /\ \E w \in WorkerIds : Alive(w)

\* C8: start called while Idle with a spec whose title list and name list are
\* both empty after normalization fails with a configuration error, spawns no
\* worker and leaves the controller Idle.
C8_EmptySpecIsConfigurationError ==
    (last.op = "start" /\ last.owned = <<>>
     /\ AllBlank(last.config.window_titles)
     /\ AllBlank(last.config.process_names)) =>
        /\ last.result = "NoTargets"
        /\ Len(workers) = last.base
        /\ last.spawned = {}
        /\ children = <<>>

C8_Witness ==
    /\ last.op = "start" /\ last.owned = <<>> /\ last.result = "NoTargets"
    /\ last.config.process_names # <<>>
    /\ AllBlank(last.config.process_names)
    /\ children = <<>>

\* C9: normalize_list returns the trimmed entries: no two output entries are
\* equal up to ASCII case, none is empty or blank, each is the first
\* occurrence of its class, every class of a non-blank entry is returned, and
\* the order is the first-seen order; the example of the specification holds.
C9_NormalizeKeepsFirstOfEachClass ==
    npc = "done" =>
        /\ \A i, j \in 1..Len(result) : i < j => ~SameClass(result[i], result[j])
        /\ \A k \in 1..Len(result) : result[k] # <<>> /\ NonBlank(result[k])
        /\ \E f \in [1..Len(result) -> 1..Len(values)] :
              /\ \A i, j \in 1..Len(result) : i < j => f[i] < f[j]
              /\ \A k \in 1..Len(result) :
                    f[k] \in Survivors(values) /\ result[k] = TrimOf(values[f[k]])
        /\ \A i \in Survivors(values) :
              \E k \in 1..Len(result) : result[k] = TrimOf(values[i])
        /\ values = ExampleInput => result = ExampleOutput

C9_Witness ==
    /\ npc = "done"
    /\ Len(values) = 3 /\ Len(result) = 2
    /\ values[1] # TrimOf(values[1])
    /\ values[2] # TrimOf(values[1])
    /\ SameClass(TrimOf(values[2]), TrimOf(values[1]))
    /\ result = <<TrimOf(values[1]), TrimOf(values[3])>>

\* C10: a target spec built by from_args or from_lists has a non-empty title
\* list, equal to the normalized raw titles when those are non-empty and to
\* [DEFAULT_WINDOW_TITLE] otherwise; its name list is the normalized raw
\* names, empty when they normalize to nothing.
BuiltFrom(c, rawTitles, rawNames) ==
    /\ c.window_titles # <<>>
    /\ IF normalize_list(rawTitles) # <<>>
       THEN c.window_titles = normalize_list(rawTitles)
       ELSE c.window_titles = <<DEFAULT_WINDOW_TITLE>>
    /\ AllBlank(rawTitles) => c.window_titles = <<DEFAULT_WINDOW_TITLE>>
    /\ c.process_names = normalize_list(rawNames)
    /\ AllBlank(rawNames) => c.process_names = <<>>

C10_BuiltSpecHasTitles ==
    /\ cpc = "from_args" => BuiltFrom(app, args.window, args.exe)
    /\ cpc = "from_lists" => BuiltFrom(resolved, args.window, args.exe)
    /\ cpc = "resolved" =>
          BuiltFrom(resolved, app.window_titles, app.process_names)

C10_Witness ==
    /\ cpc = "from_lists"
    /\ args.window # <<>> /\ AllBlank(args.window)
    /\ args.exe # <<>> /\ AllBlank(args.exe)
    /\ resolved = [window_titles |-> <<DEFAULT_WINDOW_TITLE>>,
                   process_names |-> <<>>]

(***************************************************************************)
(* Vocabulary of the claims about locating a window.                       *)
(***************************************************************************)
\* the position in the snapshot of the process matched for name: the first
\* one whose image name equals name up to ASCII case; 0 when there is none
MatchedProcess(name, s) ==
    IF \E j \in 1..Len(s.procs) : SameClass(s.procs[j].exe, name)
    THEN CHOOSE j \in 1..Len(s.procs) :
            /\ SameClass(s.procs[j].exe, name)
            /\ \A k \in 1..(j - 1) : ~SameClass(s.procs[k].exe, name)
    ELSE 0

\* window win qualifies for process pid
Qualifies(win, pid) == win.pid = pid /\ win.visible /\ win.title # <<>>

\* the positions of the windows that qualify for the process matched for name
QualifyingWindows(name, s) ==
    LET p == MatchedProcess(name, s)
    IN  IF p = 0 THEN {}
        ELSE {k \in 1..Len(s.wins) : Qualifies(s.wins[k], s.procs[p].pid)}

\* the i-th executable name of c yields a window in an iteration with the OS
\* failures f
NameYields(c, s, f, i) ==
    /\ i \notin f.snapshot
    /\ i \notin f.enum
    /\ QualifyingWindows(c.process_names[i], s) # {}

\* the positions of the windows whose title is title up to case
TitledWindows(title, s) ==
    {k \in 1..Len(s.wins) : SameClass(s.wins[k].title, title)}

\* the least position of the non-empty set K
Least(K) == CHOOSE k \in K : \A j \in K : k <= j

\* the window with handle hwnd, when there is exactly that one
WindowOf(hwnd, s) == CHOOSE k \in 1..Len(s.wins) : s.wins[k].hwnd = hwnd

\* worker w has finished the locate of its current iteration
Located(w) == Alive(w) /\ workers[w].pc = "sleep"

(***************************************************************************)
(* Claims about locating a window.                                         *)
(***************************************************************************)
\* C11: find_target_window returns the first qualifying window of the first
\* executable name, in spec order, that yields one; only when no executable
\* name yields a window it returns the window of the first title, in spec
\* order, that some window carries.  In particular, when no name matches a
\* running process and a title matches a window, a title-matched window is
\* returned.
C11_NamesFirstThenTitles ==
    \A w \in WorkerIds : Located(w) =>
        LET c == workers[w].config
            f == workers[w].fails
            yielding == {i \in 1..Len(c.process_names) : NameYields(c, sys, f, i)}
            hits == {k \in 1..Len(c.window_titles) :
                        TitledWindows(c.window_titles[k], sys) # {}}
        IN  /\ yielding # {} =>
                workers[w].sent =
                    sys.wins[Least(QualifyingWindows(
                                c.process_names[Least(yielding)], sys))].hwnd
            /\ (yielding = {} /\ hits # {}) =>
                workers[w].sent =
                    sys.wins[Least(TitledWindows(
                                c.window_titles[Least(hits)], sys))].hwnd
            /\ ((\A i \in 1..Len(c.process_names) :
                    MatchedProcess(c.process_names[i], sys) = 0) /\ hits # {}) =>
                /\ workers[w].sent # NullHwnd
                /\ \E k \in 1..Len(c.window_titles) :
                      SameClass(sys.wins[WindowOf(workers[w].sent, sys)].title,
                                c.window_titles[k])

\* two names, none of them a running process; the first title is on no
\* window, the second title is on the second window, which is returned
C11_Witness ==
    /\ Len(workers) = 1 /\ Located(1)
    /\ Len(workers[1].config.process_names) = 2
    /\ \A i \in 1..2 : MatchedProcess(workers[1].config.process_names[i], sys) = 0
    /\ Len(workers[1].config.window_titles) = 2
    /\ TitledWindows(workers[1].config.window_titles[1], sys) = {}
    /\ TitledWindows(workers[1].config.window_titles[2], sys) = {2}
    /\ workers[1].sent = 2

\* C12: a window located through an executable name belongs to the process
\* matched for that name (the first process in the snapshot whose image name
\* equals the name up to ASCII case), is visible and has title text; no
\* window of another process is returned on this path.
C12_NamePathReturnsWindowOfMatchedProcess ==
    \A w \in WorkerIds : Located(w) =>
        LET c == workers[w].config
            yielding == {i \in 1..Len(c.process_names) :
                            NameYields(c, sys, workers[w].fails, i)}
        IN  yielding # {} =>
              /\ workers[w].sent # NullHwnd
              /\ LET win == sys.wins[WindowOf(workers[w].sent, sys)]
                     p   == MatchedProcess(c.process_names[Least(yielding)], sys)
                 IN  /\ win.pid = sys.procs[p].pid
                     /\ \A q \in 1..Len(sys.procs) :
                           sys.procs[q].pid # sys.procs[p].pid =>
                               win.pid # sys.procs[q].pid
                     /\ win.visible
                     /\ Len(win.title) > 0

\* the returned window is the second one and belongs to process 2; the first
\* window is visible, titled with a title of the spec and belongs to process 1
C12_Witness ==
    /\ Len(workers) = 1 /\ Located(1)
    /\ Len(sys.wins) = 2 /\ Len(sys.procs) = 2
    /\ workers[1].sent = 2
    /\ sys.wins[2].pid = 2
    /\ Qualifies(sys.wins[1], 1)
    /\ \E k \in 1..Len(workers[1].config.window_titles) :
          SameClass(sys.wins[1].title, workers[1].config.window_titles[k])
    /\ \E i \in 1..Len(workers[1].config.process_names) :
          /\ NameYields(workers[1].config, sys, workers[1].fails, i)
          /\ sys.procs[MatchedProcess(workers[1].config.process_names[i], sys)].pid = 2

\* C13: an iteration in which no executable name yields a window (none
\* matches, or its snapshot or enumeration call fails) and no title is on a
\* window finds nothing: the worker sends no activation signal, goes to
\* sleep and polls again in the next interval.
C13_MissIsNotAnError ==
    [][\A w \in WorkerIds :
          /\ (workers[w].pc = "poll" /\ workers'[w] # workers[w]
              /\ (\A i \in 1..Len(workers[w].config.process_names) :
                     ~NameYields(workers[w].config, sys, workers'[w].fails, i))
              /\ (\A k \in 1..Len(workers[w].config.window_titles) :
                     TitledWindows(workers[w].config.window_titles[k], sys) = {})) =>
                /\ workers'[w].sent = NullHwnd
                /\ workers'[w].alive
                /\ workers'[w].pc = "sleep"
          /\ (workers[w].pc = "sleep" /\ workers[w].sent = NullHwnd
              /\ workers'[w] # workers[w]) =>
                /\ workers'[w].alive
                /\ workers'[w].pc = "poll"]_vars

\* the process of the only name shows a qualifying window, no title is on a
\* window, and the snapshot call failed: nothing was found
C13_Witness ==
    /\ Len(workers) = 1 /\ Located(1)
    /\ Len(workers[1].config.process_names) = 1
    /\ QualifyingWindows(workers[1].config.process_names[1], sys) # {}
    /\ workers[1].fails.snapshot = {1}
    /\ \A k \in 1..Len(workers[1].config.window_titles) :
          TitledWindows(workers[1].config.window_titles[k], sys) = {}
    /\ workers[1].sent = NullHwnd

\* the window an iteration over spec c on desktop s with the OS failures f is
\* to find: the first qualifying window of the first name that yields one,
\* else the first window with the first title that is on a window, else none
ExpectedWindow(c, s, f) ==
    LET yielding == {i \in 1..Len(c.process_names) : NameYields(c, s, f, i)}
        hits == {k \in 1..Len(c.window_titles) :
                    TitledWindows(c.window_titles[k], s) # {}}
    IN  IF yielding # {}
        THEN s.wins[Least(QualifyingWindows(c.process_names[Least(yielding)], s))].hwnd
        ELSE IF hits # {}
        THEN s.wins[Least(TitledWindows(c.window_titles[Least(hits)], s))].hwnd
        ELSE NullHwnd

\* the window handles of the desktops of SpecWorkers
Handles == UNION {{d.wins[k].hwnd : k \in 1..Len(d.wins)} : d \in Desktops}

\* from some point on worker w runs, its OS calls succeed and the window its
\* spec resolves to is h
StaysResolvable(w, h) ==
    /\ w \in WorkerIds
    /\ Alive(w)
    /\ workers[w].fails = NoFails
    /\ ExpectedWindow(workers[w].config, sys, NoFails) = h

Signals(w, h) == w \in WorkerIds /\ workers[w].sent = h

\* C14: a worker that keeps running polls again and again: if from some point
\* on its spec resolves to window h (the window may appear after any number
\* of misses) and its OS calls succeed, the worker sends h an activation
\* signal, in every interval from then on.
C14_PollsUntilWindowAppears ==
    \A w \in 1..MaxSpawned : \A h \in Handles :
        (<>[]StaysResolvable(w, h)) => ([]<>Signals(w, h))

\* a title worker and a name worker of one session, both having signalled the
\* window of the restarted process
C14_Witness ==
    /\ Len(workers) = 2 /\ sys = Restarted
    /\ \A w \in WorkerIds :
          /\ Located(w)
          /\ ExpectedWindow(workers[w].config, sys, NoFails) = 3
          /\ workers[w].sent = 3
    /\ workers[1].config.process_names = <<>>
    /\ workers[2].config.process_names # <<>>

C16_SessionActsAsLocateOnFullSpec ==
    [][\A w \in WorkerIds :
          (/\ last.op = "start" /\ last.result = "Ok" /\ w \in last.spawned
           /\ workers[w].pc = "poll" /\ workers'[w] # workers[w]
           /\ workers'[w].fails = NoFails
           /\ workers'[w].sent # NullHwnd) =>
              workers'[w].sent =
                  ExpectedWindow(
                      [window_titles |-> normalize_list(last.config.window_titles),
                       process_names |-> normalize_list(last.config.process_names)],
                      sys, NoFails)]_vars

\* the entries of seq that are in S, in the order of seq
RECURSIVE SelectIn(_, _)
SelectIn(seq, S) ==
    IF seq = <<>> THEN <<>>
    ELSE IF Head(seq) \in S THEN <<Head(seq)>> \o SelectIn(Tail(seq), S)
    ELSE SelectIn(Tail(seq), S)

\* C17: is_running leaves in the owned set exactly the workers that were
\* still alive, in their order, and returns true iff one is left; start
\* prunes in the same way, so a start called when every owned worker has
\* terminated on its own is not a no-op: it spawns workers or fails.
C17_PruneRemovesExactlyTheTerminated ==
    /\ last.op = "is_running" =>
          /\ children = SelectIn(last.owned, last.live)
          /\ (last.result = "true") <=> (last.live # {})
    /\ (last.op = "start" /\ last.owned # <<>> /\ last.live = {}
        /\ last.result = "Ok") =>
          last.spawned # {}

\* C20: the window a worker signals in an iteration is the window its spec
\* resolves to on the desktop of that very iteration (with the OS failures of
\* that iteration); a handle of a window that is no longer there is never
\* signalled, and after a restart of the target the signal goes to the new
\* window.
C20_SignalGoesToWindowResolvedNow ==
    [][\A w \in WorkerIds :
          (workers[w].pc = "poll" /\ workers'[w] # workers[w] /\ workers'[w].alive) =>
              /\ workers'[w].sent =
                    ExpectedWindow(workers[w].config, sys, workers'[w].fails)
              /\ workers'[w].sent # NullHwnd =>
                    \E k \in 1..Len(sys.wins) : sys.wins[k].hwnd = workers'[w].sent]_vars

\* within one interval the first worker signalled window 1, the target was
\* restarted (pid 3, window 3) and the second worker signalled window 3
C20_Witness ==
    /\ Len(workers) = 2 /\ sys = Restarted
    /\ Located(1) /\ workers[1].sent = 1
    /\ Located(2) /\ workers[2].sent = 3
    /\ workers[2].config.process_names # <<>>

(***************************************************************************)
(* Claims about main and the presentation layers.                          *)
(***************************************************************************)
\* C18: a process launched with --worker starts no UI and does not execute
\* the elevation check: what it runs is the worker loop and nothing else.
C18_WorkerRunsOnlyTheWorkerLoop ==
    proc.worker =>
        /\ proc.ui = "none"
        /\ proc.pc \notin {"cli", "gui"}
        /\ ~proc.checked

\* C19: when Controller.start returns an error to the CLI command loop or to
\* the GUI event handler, the error is shown as a message and the layer
\* stays where it was, accepting further commands; the process does not end.
C19_StartErrorIsShownAndLoopContinues ==
    [][(/\ proc.pc \in {"cli", "gui"}
        /\ last'.op = "start" /\ last'.result # "Ok"
        /\ <<last, proc>>' # <<last, proc>>) =>
          /\ proc'.pc = proc.pc
          /\ proc'.shown = "Error"
          /\ proc'.exit = "none"]_vars

(***************************************************************************)
(* Claims about the stop flag, already-exited workers and the arguments    *)
(* of the workers.                                                         *)
(***************************************************************************)
\* worker w takes a step of its own that is not the clearing of its flag
LoopStep(w) ==
    /\ workers'[w] # workers[w]
    /\ workers'[w].active = workers[w].active

\* C21: worker_loop tests its flag once per iteration, when the sleep of the
\* previous one ends: with the flag set it locates, signals and sleeps again;
\* with the flag cleared it does nothing more and ends.  A worker whose flag
\* is cleared after the test finishes the iteration it is in (at most one
\* more signal), sleeps, and ends at its next test; it always ends.
C21_FlagIsTestedOncePerIteration ==
    /\ [][\A w \in WorkerIds :
            /\ (workers[w].pc = "sleep" /\ LoopStep(w)) =>
                  IF workers[w].active
                  THEN workers'[w].alive /\ workers'[w].pc = "poll"
                       /\ workers'[w].sent = NullHwnd
                  ELSE ~workers'[w].alive /\ workers'[w].sent = NullHwnd
            /\ (workers[w].pc = "poll" /\ LoopStep(w)) =>
                  workers'[w].alive /\ workers'[w].pc = "sleep"
            /\ (workers[w].pc \notin {"poll", "sleep"}) =>
                  workers'[w] = workers[w]]_vars
    /\ \A w \in 1..MaxSpawned :
          (w \in WorkerIds /\ ~workers[w].active)
              ~> (w \in WorkerIds /\ ~workers[w].alive)

\* the worker ended through its flag, on a desktop on which its spec
\* resolves to a window
C21_Witness ==
    /\ Len(workers) = 1
    /\ ~workers[1].alive /\ ~workers[1].active
    /\ workers[1].pc = "exited"
    /\ sys = OneWindow

\* C22: a worker that had already exited when stop ran, so that kill reported
\* InvalidInput for it, is not what makes stop fail; when no kill fails for
\* another reason stop returns success, has killed every owned worker that
\* was still running, and leaves no owned worker running or owned.
C22_ExitedWorkerDoesNotFailStop ==
    (last.op = "stop"
     /\ \E i \in 1..Len(last.kills) : last.kills[i] = "InvalidInput") =>
        /\ last.result # "Ok" =>
              \E i \in 1..Len(last.kills) : last.kills[i] = "PermissionDenied"
        /\ (\A i \in 1..Len(last.kills) : last.kills[i] # "PermissionDenied") =>
              /\ last.result = "Ok"
              /\ last.killed = last.live
              /\ \A w \in Range(last.owned) : ~Alive(w)
              /\ children = <<>>

\* stop on two owned workers, the first already exited, the second running
C22_Witness ==
    /\ last.op = "stop" /\ last.result = "Ok"
    /\ Len(last.owned) = 2
    /\ last.kills = <<"InvalidInput", "Ok">>
    /\ last.live = {last.owned[2]}
    /\ last.killed = {last.owned[2]}
    /\ children = <<>>

\* C23: after a start that spawned every worker, each worker runs on the spec
\* it rebuilt from its arguments, and that spec is titles = [t], names = []
\* for the worker of title t and titles = all normalized titles, names = [e]
\* for the worker of executable name e.
C23_WorkerRebuildsItsSpecFromArguments ==
    [][(IsCallStep("start") /\ last'.result = "Ok" /\ last'.spawned # {}) =>
          LET T == normalize_list(last'.config.window_titles)
              N == normalize_list(last'.config.process_names)
          IN  /\ \A i \in 1..Len(T) :
                    /\ workers'[last'.base + i].alive
                    /\ workers'[last'.base + i].config =
                          [window_titles |-> <<T[i]>>, process_names |-> <<>>]
              /\ \A j \in 1..Len(N) :
                    /\ workers'[last'.base + Len(T) + j].alive
                    /\ workers'[last'.base + Len(T) + j].config =
                          [window_titles |-> T, process_names |-> <<N[j]>>]]_vars

====
